---- MODULE Spec2Model ----
(***************************************************************************)
(* keyrotator: key management utility for service account keys.            *)
(*                                                                         *)
(* One run of the command line program of src/keyrotator/keyrotator.py:    *)
(* main() builds the argument parser, parses the command line, and calls   *)
(* the handler the chosen subparser set as args.func; each handler runs    *)
(* one command object and passes the value of its run() to sys.exit.       *)
(*                                                                         *)
(* The command classes (cleanup.py, create.py, delete.py, list.py) are     *)
(* imported by keyrotator.py; their run() methods and the remote key store *)
(* they call are modelled from spec.md and from the handlers' docstrings.  *)
(***************************************************************************)
EXTENDS Integers, Sequences, FiniteSets, TLC

\* ------------------------------------------------------------- bounds
\* Number of key IDs the remote service can hold (all accounts together).
MaxKeys == 2
\* Largest age, in days, of a key in the remote store.
MaxAge == 1

\* ------------------------------------------------------------- values
\* Python's None, as the default of an optional flag that was not given.
None == "None"

Projects == {"p1", "p2"}
Accounts == {"a1", "a2"}
\* A service account's keys live under projects/<p>/serviceAccounts/<a>.
Resources == Projects \X Accounts
KeyIds == 1..MaxKeys
Ages == 0..MaxAge

KeyTypes == {"TYPE_PKCS12_FILE"}
KeyAlgorithms == {"KEY_ALG_RSA_1024"}
OutputFiles == {"key.json"}

\* A value run() can hand to sys.exit: None or an int.
PyNone == [t |-> "None", i |-> 0]
PyInt(n) == [t |-> "int", i |-> n]
\* No value yet (run() has not returned).
NoValue == [t |-> "unset", i |-> 0]

\* A slot of the remote store that holds no key.
NoKey == [live |-> FALSE, res |-> <<"", "">>, age |-> 0]
Key(r, a) == [live |-> TRUE, res |-> r, age |-> a]

\* ------------------------------------------------------- command line
\* A flag's occurrence on the command line: <<>> when absent, <<v>> when
\* given with value v.
Opt(S) == {<<>>} \cup {<<x>> : x \in S}

DigitChar == <<"0", "1", "2", "3", "4", "5", "6", "7", "8", "9">>
IsDigit(c) == \E d \in 1..10 : DigitChar[d] = c
DigitVal(c) == (CHOOSE d \in 1..10 : DigitChar[d] = c) - 1

\* The texts given to --key-max-age: the decimal literals 0..MaxAge, a
\* negative literal, a two-digit literal and a text that is no integer.
AgeTokens ==
  {<<DigitChar[n + 1]>> : n \in Ages}
    \cup {<<"-", "1">>, <<"1", "0">>, <<"1", "x">>}

NoFlags ==
  [version |-> FALSE, help |-> FALSE, cmd |-> "", project_id |-> <<>>, iam_account |-> <<>>,
   key_max_age |-> <<>>, key_id |-> <<>>, key_type |-> <<>>,
   key_algorithm |-> <<>>, output_file |-> <<>>]

\* The subcommand invocations: one subcommand with any subset of the flags
\* its subparser declares.
SubcommandLines ==
  {[NoFlags EXCEPT !.cmd = "cleanup", !.project_id = p,
                   !.iam_account = a, !.key_max_age = m] :
     p \in Opt(Projects), a \in Opt(Accounts), m \in Opt(AgeTokens)}
    \cup {[NoFlags EXCEPT !.cmd = "create", !.project_id = p,
                          !.iam_account = a, !.key_type = t,
                          !.key_algorithm = g, !.output_file = o] :
            p \in Opt(Projects), a \in Opt(Accounts), t \in Opt(KeyTypes),
            g \in Opt(KeyAlgorithms), o \in Opt(OutputFiles)}
    \cup {[NoFlags EXCEPT !.cmd = "delete", !.project_id = p,
                          !.iam_account = a, !.key_id = k] :
            p \in Opt(Projects), a \in Opt(Accounts), k \in Opt(KeyIds)}
    \cup {[NoFlags EXCEPT !.cmd = "list", !.project_id = p,
                          !.iam_account = a] :
            p \in Opt(Projects), a \in Opt(Accounts)}

\* The command lines of the model: no subcommand, or a subcommand line;
\* either of them with --version in front of it; a subcommand line with -h
\* right after the subcommand.
Invocations ==
  {NoFlags, [NoFlags EXCEPT !.version = TRUE]}
    \cup SubcommandLines
    \cup {[l EXCEPT !.version = TRUE] : l \in SubcommandLines}
    \cup {[l EXCEPT !.help = TRUE] : l \in SubcommandLines}

\* The remote stores of the model: every key ID is free or holds a key of
\* some service account with some age.
KeyStores == [KeyIds -> {NoKey} \cup {Key(r, a) : r \in Resources, a \in Ages}]

VARIABLES
  pc,          \* where the process is
  argv,        \* the command line
  args,        \* the Namespace parse_args returned
  handler,     \* the handler main called ("" before the call)
  command,     \* the command object whose run() was called ("" if none)
  runargs,     \* the arguments run() was called with
  ran,         \* the command objects run, in order
  keys,        \* the remote store
  keys0,       \* the remote store when the process started (history)
  listed,      \* cleanup: the key IDs the list call returned
  todo,        \* cleanup: the listed keys still to delete
  calls,       \* the remote calls issued, in order
  rpcFailed,   \* a remote call has failed
  ret,         \* the value run() returned
  exitStatus,  \* the process's exit status (-1 while it runs)
  out          \* where create wrote the new key

vars ==
  <<pc, argv, args, handler, command, runargs, ran, keys, keys0, listed,
    todo, calls, rpcFailed, ret, exitStatus, out>>

\* ------------------------------------------------------------- parser
Arg(dest, required, type) == [dest |-> dest, required |-> required, type |-> type]

\* parser_cleanup, lines 37-45.
parser_cleanup ==
  [func |-> "Cleanup",
   arguments |-> {Arg("project_id", TRUE, "str"),
                  Arg("iam_account", TRUE, "str"),
                  Arg("key_max_age", TRUE, "int")}]

\* A create subparser whose set_defaults names List.
parser_create_AsList ==
  [func |-> "List",
   arguments |-> {Arg("project_id", TRUE, "str"),
                  Arg("iam_account", TRUE, "str"),
                  Arg("key_type", FALSE, "str"),
                  Arg("key_algorithm", FALSE, "str"),
                  Arg("output_file", FALSE, "str")}]

\* parser_create, lines 47-60.
parser_create ==
  [func |-> "Create",
   arguments |-> {Arg("project_id", TRUE, "str"),
                  Arg("iam_account", TRUE, "str"),
                  Arg("key_type", FALSE, "str"),
                  Arg("key_algorithm", FALSE, "str"),
                  Arg("output_file", FALSE, "str")}]

\* A delete subparser whose set_defaults names List.
parser_delete_AsList ==
  [func |-> "List",
   arguments |-> {Arg("project_id", TRUE, "str"),
                  Arg("iam_account", TRUE, "str"),
                  Arg("key_id", TRUE, "str")}]

\* parser_delete, lines 62-69.
parser_delete ==
  [func |-> "Delete",
   arguments |-> {Arg("project_id", TRUE, "str"),
                  Arg("iam_account", TRUE, "str"),
                  Arg("key_id", TRUE, "str")}]

\* A list subparser whose --project-id lacks required=True.
parser_list_ProjectOptional ==
  [func |-> "List",
   arguments |-> {Arg("project_id", FALSE, "str"),
                  Arg("iam_account", TRUE, "str")}]

\* parser_list, lines 71-76.
parser_list ==
  [func |-> "List",
   arguments |-> {Arg("project_id", TRUE, "str"),
                  Arg("iam_account", TRUE, "str")}]

\* _init_arg_parser(): the subparsers by name, each with the arguments it
\* declares (all of them optional flags; required=True and type=int as
\* written) and the handler its set_defaults(func=...) names.
_init_arg_parser ==
  [cleanup |-> parser_cleanup,
   create |-> parser_create,
   delete |-> parser_delete,
   list |-> parser_list]

Handlers == {"Cleanup", "Create", "Delete", "List"}

\* int(text) of type=int: an optional minus sign and decimal digits.
IsIntLiteral(s) ==
  LET body == IF Len(s) > 0 /\ s[1] = "-" THEN Tail(s) ELSE s
  IN  Len(body) > 0 /\ \A i \in 1..Len(body) : IsDigit(body[i])

RECURSIVE NatOf(_)
NatOf(s) ==
  IF Len(s) = 0 THEN 0
  ELSE 10 * NatOf(SubSeq(s, 1, Len(s) - 1)) + DigitVal(s[Len(s)])

IntOf(s) == IF s[1] = "-" THEN 0 - NatOf(Tail(s)) ELSE NatOf(s)

\* The Namespace of a parser that matched no subparser: no attribute at all
\* (--version has no dest, and no set_defaults ran).
EmptyNamespace == [a \in {} |-> None]

\* The Namespace a subparser builds: one attribute per declared argument
\* (None when the flag is absent: no default= is given), and func.
Namespace(sub, av) ==
  [a \in {x.dest : x \in sub.arguments} \cup {"func"} |->
     IF a = "func" THEN sub.func
     ELSE LET x == CHOOSE y \in sub.arguments : y.dest = a
          IN  IF Len(av[a]) = 0 THEN None
              ELSE IF x.type = "int" THEN IntOf(av[a][1])
              ELSE av[a][1]]

\* A subparser rejects the command line when a required flag is absent or
\* a type=int value is no integer literal.
Rejects(sub, av) ==
  \E x \in sub.arguments :
    \/ x.required /\ Len(av[x.dest]) = 0
    \/ x.type = "int" /\ Len(av[x.dest]) > 0 /\ ~IsIntLiteral(av[x.dest][1])

\* parse_args(): the outcomes of parsing the command line, read from left
\* to right.  "exit" is argparse ending the process itself: status 0 after
\* printing the version (line 35) or a subparser's help (-h, which every
\* parser gets), status 2 after a usage error.  Without a subcommand the outcome depends
\* on the interpreter: argparse of Python 2 reports "too few arguments",
\* argparse of Python 3 (subparsers are optional unless required=True)
\* returns a Namespace without func.
parse_args(parser, av) ==
  IF av.version THEN {[kind |-> "exit", status |-> 0, ns |-> EmptyNamespace]}
  ELSE IF av.cmd = ""
    THEN {[kind |-> "exit", status |-> 2, ns |-> EmptyNamespace],
          [kind |-> "ok", status |-> 0, ns |-> EmptyNamespace]}
  ELSE IF av.help THEN {[kind |-> "exit", status |-> 0, ns |-> EmptyNamespace]}
  ELSE IF Rejects(parser[av.cmd], av)
    THEN {[kind |-> "exit", status |-> 2, ns |-> EmptyNamespace]}
  ELSE {[kind |-> "ok", status |-> 0, ns |-> Namespace(parser[av.cmd], av)]}

\* --------------------------------------------------------------- init
NoRunArgs ==
  [project_id |-> None, iam_account |-> None, key_max_age |-> None,
   key_id |-> None, key_type |-> None, key_algorithm |-> None,
   output_file |-> None]

NoOutput == [stdout |-> {}, files |-> {}]

Init ==
  /\ pc = "main"
  /\ argv \in Invocations
  /\ args = EmptyNamespace
  /\ handler = ""
  /\ command = ""
  /\ runargs = NoRunArgs
  /\ ran = <<>>
  /\ keys \in KeyStores
  /\ keys0 = keys
  /\ listed = {}
  /\ todo = {}
  /\ calls = <<>>
  /\ rpcFailed = FALSE
  /\ ret = NoValue
  /\ exitStatus = -1
  /\ out = NoOutput

\* --------------------------------------------------------------- main
\* The process ends with the given status.
Exit(status) ==
  /\ pc' = "exit"
  /\ exitStatus' = status

\* main(), lines 87-88: build the parser and parse the command line.
MainParse ==
  /\ pc = "main"
  /\ \E r \in parse_args(_init_arg_parser, argv) :
       IF r.kind = "ok"
       THEN /\ args' = r.ns
            /\ pc' = "dispatch"
            /\ UNCHANGED exitStatus
       ELSE /\ Exit(r.status)
            /\ UNCHANGED args
  /\ UNCHANGED <<argv, handler, command, runargs, ran, keys, keys0, listed,
                 todo, calls, rpcFailed, ret, out>>

\* main(), line 89: args.func(args).  A Namespace without func raises
\* AttributeError, which nothing catches: the interpreter prints the
\* traceback and exits with status 1.
MainDispatch ==
  /\ pc = "dispatch"
  /\ IF "func" \in DOMAIN args
     THEN /\ handler' = args.func
          /\ pc' = "handler"
          /\ UNCHANGED exitStatus
     ELSE /\ Exit(1)
          /\ UNCHANGED handler
  /\ UNCHANGED <<argv, args, command, runargs, ran, keys, keys0, listed,
                 todo, calls, rpcFailed, ret, out>>

main == MainParse \/ MainDispatch

\* ----------------------------------------------------------- handlers
\* A sys.exit that is handed a truth value: status 1 for every value but
\* None.
sys_exit_Truthy(v) == IF v.t = "None" THEN 0 ELSE 1

\* sys.exit(v): None is status 0, an int is the status (the operating
\* system keeps its low 8 bits), anything else is printed and is status 1.
sys_exit(v) ==
  IF v.t = "None" THEN 0
  ELSE IF v.t = "int" THEN v.i % 256
  ELSE 1

\* AttributeError (an attribute the Namespace lacks) ends the process with
\* a traceback and status 1 before run() is called.
AttributeError ==
  /\ Exit(1)
  /\ UNCHANGED <<command, runargs, ran>>

\* command = C(); command.run(...): run() starts with the given arguments.
CallRun(cls, ra) ==
  /\ command' = cls
  /\ runargs' = ra
  /\ ran' = Append(ran, cls)
  /\ pc' = "run"
  /\ UNCHANGED exitStatus

\* The handler's frame: nothing outside the call changes.
HandlerFrame ==
  UNCHANGED <<argv, args, handler, keys, keys0, listed, todo, calls,
              rpcFailed, ret, out>>

\* A handler that drops the value of run(): main returns and the process
\* ends with status 0.
ExitIgnoringResult(h) ==
  /\ pc = "returned"
  /\ handler = h
  /\ Exit(0)
  /\ UNCHANGED <<argv, args, handler, command, runargs, ran, keys, keys0,
                 listed, todo, calls, rpcFailed, ret, out>>

\* sys.exit(command.run(...)): the value run() returned is the argument of
\* sys.exit, which ends the process.
ExitWithResult(h) ==
  /\ pc = "returned"
  /\ handler = h
  /\ Exit(sys_exit(ret))
  /\ UNCHANGED <<argv, args, handler, command, runargs, ran, keys, keys0,
                 listed, todo, calls, rpcFailed, ret, out>>

\* A Cleanup that passes a threshold one day short.
Cleanup_OffByOne ==
  \/ /\ pc = "handler"
     /\ handler = "Cleanup"
     /\ IF {"project_id", "iam_account", "key_max_age"} \subseteq DOMAIN args
        THEN CallRun("CleanupCommand",
                     [NoRunArgs EXCEPT !.project_id = args.project_id,
                                       !.iam_account = args.iam_account,
                                       !.key_max_age = args.key_max_age - 1])
        ELSE AttributeError
     /\ HandlerFrame
  \/ ExitWithResult("Cleanup")

\* Cleanup(args), lines 102-103.
Cleanup ==
  \/ /\ pc = "handler"
     /\ handler = "Cleanup"
     /\ IF {"project_id", "iam_account", "key_max_age"} \subseteq DOMAIN args
        THEN CallRun("CleanupCommand",
                     [NoRunArgs EXCEPT !.project_id = args.project_id,
                                       !.iam_account = args.iam_account,
                                       !.key_max_age = args.key_max_age])
        ELSE AttributeError
     /\ HandlerFrame
  \/ ExitWithResult("Cleanup")

\* A Create that passes key_algorithm and key_type in each other's place.
Create_SwappedArguments ==
  \/ /\ pc = "handler"
     /\ handler = "Create"
     /\ IF {"project_id", "iam_account", "key_type", "key_algorithm",
            "output_file"} \subseteq DOMAIN args
        THEN CallRun("CreateCommand",
                     [NoRunArgs EXCEPT !.project_id = args.project_id,
                                       !.iam_account = args.iam_account,
                                       !.key_type = args.key_algorithm,
                                       !.key_algorithm = args.key_type,
                                       !.output_file = args.output_file])
        ELSE AttributeError
     /\ HandlerFrame
  \/ ExitWithResult("Create")

\* Create(args), lines 116-118.
Create ==
  \/ /\ pc = "handler"
     /\ handler = "Create"
     /\ IF {"project_id", "iam_account", "key_type", "key_algorithm",
            "output_file"} \subseteq DOMAIN args
        THEN CallRun("CreateCommand",
                     [NoRunArgs EXCEPT !.project_id = args.project_id,
                                       !.iam_account = args.iam_account,
                                       !.key_type = args.key_type,
                                       !.key_algorithm = args.key_algorithm,
                                       !.output_file = args.output_file])
        ELSE AttributeError
     /\ HandlerFrame
  \/ ExitWithResult("Create")

\* Delete(args), lines 127-128.
Delete ==
  \/ /\ pc = "handler"
     /\ handler = "Delete"
     /\ IF {"project_id", "iam_account", "key_id"} \subseteq DOMAIN args
        THEN CallRun("DeleteCommand",
                     [NoRunArgs EXCEPT !.project_id = args.project_id,
                                       !.iam_account = args.iam_account,
                                       !.key_id = args.key_id])
        ELSE AttributeError
     /\ HandlerFrame
  \/ ExitWithResult("Delete")

\* List(args), lines 137-138.
List ==
  \/ /\ pc = "handler"
     /\ handler = "List"
     /\ IF {"project_id", "iam_account"} \subseteq DOMAIN args
        THEN CallRun("ListCommand",
                     [NoRunArgs EXCEPT !.project_id = args.project_id,
                                       !.iam_account = args.iam_account])
        ELSE AttributeError
     /\ HandlerFrame
  \/ ExitWithResult("List")

\* ------------------------------------------------- the command objects
\* The service account run() was called for.
Target == <<runargs.project_id, runargs.iam_account>>

\* A remote call, as the service sees it.
Rpc(op, key, ktype, kalg) ==
  [op |-> op, res |-> Target, key |-> key, ktype |-> ktype, kalg |-> kalg]

\* The keys of a service account in the remote store.
KeysOf(store, r) == {k \in KeyIds : store[k].live /\ store[k].res = r}

\* run() returns: 0 after success; after a failed remote call the error is
\* printed and the status is non-zero.
Return(ok) ==
  /\ ret' = IF ok THEN PyInt(0) ELSE PyInt(1)
  /\ rpcFailed' = (rpcFailed \/ ~ok)
  /\ pc' = "returned"

RunFrame == UNCHANGED <<argv, args, handler, command, runargs, ran, keys0, exitStatus>>

\* ListCommand.run(project_id, iam_account): one listKeys call.  The call
\* fails for a service account the service does not know, and may fail for
\* any other reason.
ListRun ==
  /\ pc = "run"
  /\ command = "ListCommand"
  /\ calls' = Append(calls, Rpc("listKeys", 0, None, None))
  /\ \E ok \in {b \in BOOLEAN : b => Target \in Resources} :
       /\ listed' = IF ok THEN KeysOf(keys, Target) ELSE listed
       /\ Return(ok)
  /\ UNCHANGED <<keys, todo, out>>
  /\ RunFrame

\* The key type and algorithm of a created key: the given ones, and the
\* defaults of Create's docstring for the ones not given.
KeyTypeOf(t) == IF t = None THEN "TYPE_GOOGLE_CREDENTIALS_FILE" ELSE t
KeyAlgorithmOf(g) == IF g = None THEN "KEY_ALG_RSA_4096" ELSE g

FreeIds == {k \in KeyIds : ~keys[k].live}

\* CreateCommand.run(project_id, iam_account, key_type, key_algorithm,
\* output_file): one createKey call.  The new key gets a fresh ID and age
\* 0; the service refuses when the account is unknown or no ID is free.
\* The key is written to output_file, or to stdout when none is given.
CreateRun ==
  /\ pc = "run"
  /\ command = "CreateCommand"
  /\ calls' = Append(calls, Rpc("createKey", 0, KeyTypeOf(runargs.key_type),
                                KeyAlgorithmOf(runargs.key_algorithm)))
  /\ \E ok \in {b \in BOOLEAN : b => Target \in Resources /\ FreeIds # {}} :
       /\ IF ok
          THEN LET k == CHOOSE x \in FreeIds : \A y \in FreeIds : x <= y
               IN  /\ keys' = [keys EXCEPT ![k] = Key(Target, 0)]
                   /\ out' = IF runargs.output_file = None
                             THEN [out EXCEPT !.stdout = @ \cup {k}]
                             ELSE [out EXCEPT !.files =
                                     @ \cup {<<runargs.output_file, k>>}]
          ELSE UNCHANGED <<keys, out>>
       /\ Return(ok)
  /\ UNCHANGED <<listed, todo>>
  /\ RunFrame

\* The service deletes key k of the target account: it fails when the
\* account has no such key.
CanDelete(k) == k \in KeysOf(keys, Target)

\* DeleteCommand.run(project_id, iam_account, key_id): one deleteKey call.
DeleteRun ==
  /\ pc = "run"
  /\ command = "DeleteCommand"
  /\ calls' = Append(calls, Rpc("deleteKey", runargs.key_id, None, None))
  /\ \E ok \in {b \in BOOLEAN : b => CanDelete(runargs.key_id)} :
       /\ keys' = IF ok THEN [keys EXCEPT ![runargs.key_id] = NoKey] ELSE keys
       /\ Return(ok)
  /\ UNCHANGED <<listed, todo, out>>
  /\ RunFrame

\* The age filter of cleanup: keys.filter(age > maxAge).
TooOld(store, ks, maxAge) == {k \in ks : store[k].age > maxAge}

\* A list step whose age filter runs over every key of the store, not over
\* the list result.
CleanupList_FiltersAllKeys ==
  /\ pc = "run"
  /\ command = "CleanupCommand"
  /\ calls' = Append(calls, Rpc("listKeys", 0, None, None))
  /\ \E ok \in {b \in BOOLEAN : b => Target \in Resources} :
       IF ok
       THEN /\ listed' = KeysOf(keys, Target)
            /\ todo' = TooOld(keys, {k \in KeyIds : keys[k].live},
                              runargs.key_max_age)
            /\ pc' = "deleting"
            /\ UNCHANGED <<ret, rpcFailed>>
       ELSE /\ Return(FALSE)
            /\ UNCHANGED <<listed, todo>>
  /\ UNCHANGED <<keys, out>>
  /\ RunFrame

\* CleanupCommand.run(project_id, iam_account, key_max_age), step 1 and 2:
\* the list call, then the age filter on its result.
CleanupList ==
  /\ pc = "run"
  /\ command = "CleanupCommand"
  /\ calls' = Append(calls, Rpc("listKeys", 0, None, None))
  /\ \E ok \in {b \in BOOLEAN : b => Target \in Resources} :
       IF ok
       THEN /\ listed' = KeysOf(keys, Target)
            /\ todo' = TooOld(keys, listed', runargs.key_max_age)
            /\ pc' = "deleting"
            /\ UNCHANGED <<ret, rpcFailed>>
       ELSE /\ Return(FALSE)
            /\ UNCHANGED <<listed, todo>>
  /\ UNCHANGED <<keys, out>>
  /\ RunFrame

\* Step 3: one deleteKey call per key that passed the filter.  A failed
\* call ends the command.
CleanupDelete ==
  /\ pc = "deleting"
  /\ \E k \in todo :
       /\ calls' = Append(calls, Rpc("deleteKey", k, None, None))
       /\ \E ok \in {b \in BOOLEAN : b => CanDelete(k)} :
            IF ok
            THEN /\ keys' = [keys EXCEPT ![k] = NoKey]
                 /\ todo' = todo \ {k}
                 /\ UNCHANGED <<pc, ret, rpcFailed>>
            ELSE /\ Return(FALSE)
                 /\ UNCHANGED <<keys, todo>>
  /\ UNCHANGED <<listed, out>>
  /\ RunFrame

\* Every key that passed the filter is deleted: run() returns 0.
CleanupReturn ==
  /\ pc = "deleting"
  /\ todo = {}
  /\ Return(TRUE)
  /\ UNCHANGED <<keys, listed, todo, calls, out>>
  /\ RunFrame

CleanupRun == CleanupList \/ CleanupDelete \/ CleanupReturn

Next ==
  \/ main
  \/ Cleanup
  \/ Create
  \/ Delete
  \/ List
  \/ CleanupRun
  \/ CreateRun
  \/ DeleteRun
  \/ ListRun

Spec == Init /\ [][Next]_vars

\* ================================================================ claims
\* The process has ended.
Exited == pc = "exit"

\* --project-id and --iam-account are both on the command line.
HasTarget == Len(argv.project_id) > 0 /\ Len(argv.iam_account) > 0

\* The service account the command line names.
ArgvTarget == <<argv.project_id[1], argv.iam_account[1]>>

\* --key-max-age is on the command line and is an integer literal.
HasMaxAge == Len(argv.key_max_age) > 0 /\ IsIntLiteral(argv.key_max_age[1])

\* The key-max-age the command line gives.
ArgvMaxAge == IntOf(argv.key_max_age[1])

\* The keys a deleteKey call was issued for.
DeleteCallKeys ==
  {calls[i].key : i \in {j \in 1..Len(calls) : calls[j].op = "deleteKey"}}

\* The keys that left the store, and the keys that entered it.
RemovedKeys == {k \in KeyIds : keys0[k].live /\ ~keys[k].live}
NewKeys == {k \in KeyIds : keys[k].live /\ ~keys0[k].live}

HandlerOf ==
  [cleanup |-> "Cleanup", create |-> "Create", delete |-> "Delete",
   list |-> "List"]
CommandOf ==
  [cleanup |-> "CleanupCommand", create |-> "CreateCommand",
   delete |-> "DeleteCommand", list |-> "ListCommand"]
OpOf == [create |-> "createKey", delete |-> "deleteKey", list |-> "listKeys"]

\* main has called a handler: parse_args returned a subparser's Namespace.
Dispatched == "func" \in DOMAIN args /\ pc \notin {"main", "dispatch"}

\* C1: cleanup issues a delete only for listed keys whose age in days is
\* strictly greater than key-max-age (a key whose age equals key-max-age is
\* never deleted), and when its run ends without a failed remote call it
\* has issued a delete for every such key, and every such key is gone.
C1_CleanupDeletesExactlyOlderKeys ==
  (argv.cmd = "cleanup" /\ ran # <<>>) =>
    /\ HasMaxAge
    /\ LET older == {k \in listed : keys0[k].age > ArgvMaxAge}
       IN  /\ DeleteCallKeys \subseteq older
           /\ RemovedKeys \subseteq older
           /\ (pc \in {"returned", "exit"} /\ ~rpcFailed) =>
                /\ DeleteCallKeys = older
                /\ RemovedKeys = older

\* A cleanup ended without failure, deleted a key older than key-max-age
\* and kept a listed key whose age equals key-max-age.
C1_Witness ==
  /\ Exited
  /\ argv.cmd = "cleanup"
  /\ ~rpcFailed
  /\ DeleteCallKeys # {}
  /\ HasMaxAge
  /\ \E k \in listed : keys0[k].age = ArgvMaxAge /\ keys[k].live

\* C2: in a run of cleanup no remote call precedes the list call, the list
\* call is the first and only list call, every later call is a delete for
\* the same service account, of a key ID the list call returned, and the
\* list result holds keys of the given project and service account only.
C2_CleanupListsThenDeletes ==
  command = "CleanupCommand" =>
    /\ pc = "run" => calls = <<>>
    /\ pc # "run" =>
         /\ Len(calls) >= 1
         /\ calls[1].op = "listKeys"
         /\ HasTarget
         /\ calls[1].res = ArgvTarget
         /\ listed \subseteq KeysOf(keys0, ArgvTarget)
         /\ \A i \in 2..Len(calls) :
              /\ calls[i].op = "deleteKey"
              /\ calls[i].res = ArgvTarget
              /\ calls[i].key \in listed

\* A cleanup issued the list call and then two delete calls.
C2_Witness ==
  /\ command = "CleanupCommand"
  /\ Exited
  /\ Len(calls) >= 3
  /\ calls[3].op = "deleteKey"

\* C3: a process in which a remote call failed never ends with status 0.
C3_FailedRemoteCallExitsNonZero == (Exited /\ rpcFailed) => exitStatus # 0

\* A cleanup whose delete call failed ended with status 1.
C3_Witness ==
  /\ Exited
  /\ rpcFailed
  /\ command = "CleanupCommand"
  /\ Len(calls) >= 2
  /\ exitStatus = 1

\* C4: main calls the handler of the subcommand on the command line and no
\* other, the handler runs the command of that subcommand and no other, no
\* invocation runs more than one command or one command twice, and every
\* invocation main dispatches runs exactly one.
C4_DispatchToOwnCommand ==
  /\ Len(ran) <= 1
  /\ handler # "" => (argv.cmd # "" /\ handler = HandlerOf[argv.cmd])
  /\ ran # <<>> => (argv.cmd # "" /\ ran = <<CommandOf[argv.cmd]>>
                    /\ command = CommandOf[argv.cmd])
  /\ (Dispatched /\ pc # "handler") => Len(ran) = 1

\* A delete invocation ran DeleteCommand once and ended.
C4_Witness ==
  /\ Exited
  /\ argv.cmd = "delete"
  /\ ran = <<"DeleteCommand">>
  /\ handler = "Delete"

\* C5: a run of list, create or delete issues exactly one remote call: the
\* listKeys, createKey or deleteKey call of its subcommand, for the service
\* account given, and for delete the key ID given.
C5_OneRemoteCall ==
  argv.cmd \in {"list", "create", "delete"} =>
    /\ Len(calls) <= 1
    /\ (Dispatched /\ pc \in {"returned", "exit"}) =>
         /\ Len(calls) = 1
         /\ calls[1].op = OpOf[argv.cmd]
         /\ calls[1].res = ArgvTarget
         /\ argv.cmd = "delete" => calls[1].key = argv.key_id[1]

\* A create invocation issued its one createKey call and ended.
C5_Witness ==
  /\ Exited
  /\ argv.cmd = "create"
  /\ Len(calls) = 1
  /\ calls[1].op = "createKey"
  /\ NewKeys # {}

\* C6: a create without --key-type asks for TYPE_GOOGLE_CREDENTIALS_FILE, a
\* create without --key-algorithm asks for KEY_ALG_RSA_4096, and a create
\* without --output-file writes the new key to stdout and to no file.
C6_CreateDefaults ==
  (argv.cmd = "create" /\ Len(calls) > 0) =>
    /\ calls[1].op = "createKey"
    /\ Len(argv.key_type) = 0 =>
         calls[1].ktype = "TYPE_GOOGLE_CREDENTIALS_FILE"
    /\ Len(argv.key_algorithm) = 0 => calls[1].kalg = "KEY_ALG_RSA_4096"
    /\ Len(argv.output_file) = 0 =>
         (out.files = {} /\ (pc \in {"returned", "exit"} => out.stdout = NewKeys))

\* A create with --key-algorithm alone made a key and wrote it to stdout.
C6_Witness ==
  /\ Exited
  /\ argv.cmd = "create"
  /\ Len(argv.key_type) = 0
  /\ Len(argv.key_algorithm) > 0
  /\ Len(argv.output_file) = 0
  /\ exitStatus = 0
  /\ out.stdout # {}

\* The command line names a subcommand and omits one of its required flags
\* or gives --key-max-age a text that is no integer.
OmitsRequired ==
  /\ argv.cmd # ""
  /\ \/ Len(argv.project_id) = 0
     \/ Len(argv.iam_account) = 0
     \/ argv.cmd = "cleanup" /\ ~HasMaxAge
     \/ argv.cmd = "delete" /\ Len(argv.key_id) = 0

\* C7 as stated: every such invocation runs no command, issues no remote
\* call and ends with a non-zero status.
C7_AsStated ==
  OmitsRequired =>
    /\ ran = <<>>
    /\ calls = <<>>
    /\ handler = ""
    /\ Exited => exitStatus # 0

\* C7 as amended: every such invocation runs no command and issues no
\* remote call, and ends with a non-zero status unless the command line
\* holds --version or -h/--help.
C7_RejectedUnlessVersionOrHelp ==
  OmitsRequired =>
    /\ ran = <<>>
    /\ calls = <<>>
    /\ handler = ""
    /\ pc \in {"main", "exit"}
    /\ (Exited /\ ~argv.version /\ ~argv.help) => exitStatus # 0

\* A cleanup whose --key-max-age is no integer was rejected with status 2.
C7_Witness ==
  /\ Exited
  /\ argv.cmd = "cleanup"
  /\ HasTarget
  /\ Len(argv.key_max_age) > 0
  /\ ~HasMaxAge
  /\ ~argv.version
  /\ ~argv.help
  /\ exitStatus = 2

\* C8: whenever main is at the dispatch step (parse_args has returned) the
\* Namespace names one of the four handlers.
C8_ParsedInvocationHasHandler ==
  pc = "dispatch" => ("func" \in DOMAIN args /\ args.func \in Handlers)

\* C9: once run() has returned the process can only end, with the value
\* returned as its status (0 for None); a process that has ended takes no
\* further step, and status 0 after a run means run() returned 0 or None.
C9_ExitStatusIsRunResult ==
  /\ [][/\ pc = "returned" =>
            /\ pc' = "exit"
            /\ ret.t \in {"None", "int"}
            /\ exitStatus' = (IF ret.t = "None" THEN 0 ELSE ret.i)
        /\ pc = "exit" => FALSE
        /\ handler # "" => pc' \notin {"main", "dispatch", "handler"}]_vars
  /\ [](pc = "returned" => ENABLED Next)
  /\ []((Exited /\ ret.t # "unset" /\ exitStatus = 0) =>
          (ret = PyNone \/ ret = PyInt(0)))

\* A handler's run returned 1 and the process ended with status 1.
C9_Witness ==
  /\ Exited
  /\ handler \in Handlers
  /\ ret = PyInt(1)
  /\ exitStatus = 1

\* C10: a key of the store changes only if it belongs to the service
\* account on the command line; list changes no key; delete changes at
\* most the key named by --key-id, by removing it; create changes no key
\* that existed; cleanup adds no key and changes no key whose age is at
\* most key-max-age.
C10_RemoteKeySetFrame ==
  /\ \A k \in KeyIds :
       keys[k] # keys0[k] =>
         /\ argv.cmd \in {"create", "delete", "cleanup"}
         /\ HasTarget
         /\ keys0[k].live => keys0[k].res = ArgvTarget
         /\ keys[k].live => keys[k].res = ArgvTarget
  /\ argv.cmd = "list" => keys = keys0
  /\ argv.cmd = "delete" =>
       \A k \in KeyIds :
         keys[k] # keys0[k] =>
           (Len(argv.key_id) > 0 /\ k = argv.key_id[1] /\ keys[k] = NoKey)
  /\ argv.cmd = "create" => \A k \in KeyIds : keys0[k].live => keys[k] = keys0[k]
  /\ argv.cmd = "cleanup" =>
       \A k \in KeyIds :
         keys[k] # keys0[k] =>
           (keys0[k].live /\ HasMaxAge /\ keys0[k].age > ArgvMaxAge)

\* A cleanup removed a key of its service account and left a key of
\* another service account in place.
C10_Witness ==
  /\ Exited
  /\ argv.cmd = "cleanup"
  /\ RemovedKeys # {}
  /\ \E k \in KeyIds :
       keys[k].live /\ keys[k].res # ArgvTarget /\ keys[k].age > ArgvMaxAge

====
